---- MODULE Spec2Model ----
(***************************************************************************)
(* Model of src/utils/reducers.js (redux-firestore): pathFromMeta,         *)
(* combineReducers, updateObject, updateItemInArray and                    *)
(* preserveValuesFromState.                                                *)
(*                                                                         *)
(* JavaScript values are tagged records.  Strings are sequences of         *)
(* one-character strings, so that concatenation, join and split are        *)
(* computed and not assumed.  Objects and arrays whose identity matters    *)
(* live in a heap (a sequence of cells, the address being the index);      *)
(* the immutable meta tree of pathFromMeta is a nested value.              *)
(***************************************************************************)
EXTENDS Integers, Sequences, FiniteSets, TLC

VARIABLES pc, op, args, heap0, heap, ret, calls

vars == <<pc, op, args, heap0, heap, ret, calls>>

(***************************************************************************)
(* Bounds of the model.                                                    *)
(***************************************************************************)
\* number of nodes (meta objects and absent entries) of a meta tree
MaxNodes == 3
\* numbers stored in objects are 1..MaxVal
MaxVal == 2
\* length of the array given to updateItemInArray, and of a preserve list
MaxLen == 2

(***************************************************************************)
(* JavaScript values.                                                      *)
(***************************************************************************)
Undefined == [t |-> "undefined"]
Null == [t |-> "null"]
Bool(b) == [t |-> "boolean", b |-> b]
Num(n) == [t |-> "number", n |-> n]
Str(s) == [t |-> "string", s |-> s]
Fn(f) == [t |-> "function", f |-> f]
Arr(e) == [t |-> "array", elems |-> e]
Ref(a) == [t |-> "ref", a |-> a]

\* ToBoolean: undefined, null, false, 0 and '' are falsy; objects and arrays
\* (the empty array too) are truthy.
Truthy(v) ==
    CASE v.t = "undefined" -> FALSE
      [] v.t = "null" -> FALSE
      [] v.t = "boolean" -> v.b
      [] v.t = "number" -> v.n # 0
      [] v.t = "string" -> v.s # <<>>
      [] OTHER -> TRUE

\* Array.prototype.join on an array of strings
RECURSIVE join(_, _)
join(arr, sep) ==
    IF Len(arr) = 0 THEN <<>>
    ELSE IF Len(arr) = 1 THEN arr[1]
    ELSE arr[1] \o sep \o join(Tail(arr), sep)

\* the outcome of a call: a returned value or a thrown Error
Return(v) == [ok |-> TRUE, v |-> v]
Throw(msg) == [ok |-> FALSE, err |-> msg]

MetaRequired == "Action meta is required to build path for reducers."
CollectionRequired == "Collection is required to construct reducer path."
InvalidPreserve == "Invalid preserve parameter. It must be an Object or an Array"

Min(S) == CHOOSE x \in S : \A y \in S : x <= y

(***************************************************************************)
(* pathFromMeta                                                            *)
(***************************************************************************)
\* a meta object; a key the object lacks destructures to undefined
Meta(collection, doc, subcollections, storeAs) ==
    [t |-> "object", collection |-> collection, doc |-> doc,
     subcollections |-> subcollections, storeAs |-> storeAs]

RECURSIVE pathFromMeta(_)

\* faulty variant: the doc is left out of the base path
pathFromMeta_NoDoc(meta) ==
    IF ~Truthy(meta) THEN Throw(MetaRequired)
    ELSE IF Truthy(meta.storeAs) THEN Return(meta.storeAs.s)
    ELSE IF ~Truthy(meta.collection) THEN Throw(CollectionRequired)
    ELSE LET basePath == meta.collection.s
             subs == meta.subcollections.elems
             mapped == [i \in 1..Len(subs) |-> pathFromMeta(subs[i])]
             failed == {i \in 1..Len(subs) : ~mapped[i].ok}
         IN  IF ~Truthy(meta.subcollections) THEN Return(basePath)
             ELSE IF failed # {} THEN mapped[Min(failed)]
             ELSE Return(basePath \o <<".">> \o
                         join([i \in 1..Len(subs) |-> mapped[i].v], <<".">>))

\* faulty variant: the collection is required before storeAs is looked at
pathFromMeta_CollectionFirst(meta) ==
    IF ~Truthy(meta) THEN Throw(MetaRequired)
    ELSE IF ~Truthy(meta.collection) THEN Throw(CollectionRequired)
    ELSE IF Truthy(meta.storeAs) THEN Return(meta.storeAs.s)
    ELSE LET basePath == meta.collection.s \o
                 (IF Truthy(meta.doc) THEN <<".">> \o meta.doc.s ELSE <<>>)
             subs == meta.subcollections.elems
             mapped == [i \in 1..Len(subs) |-> pathFromMeta(subs[i])]
             failed == {i \in 1..Len(subs) : ~mapped[i].ok}
         IN  IF ~Truthy(meta.subcollections) THEN Return(basePath)
             ELSE IF failed # {} THEN mapped[Min(failed)]
             ELSE Return(basePath \o <<".">> \o
                         join([i \in 1..Len(subs) |-> mapped[i].v], <<".">>))

\* faulty variant: an entry that fails to resolve is skipped instead of failing the call
pathFromMeta_SkipFailed(meta) ==
    IF ~Truthy(meta) THEN Throw(MetaRequired)
    ELSE IF Truthy(meta.storeAs) THEN Return(meta.storeAs.s)
    ELSE IF ~Truthy(meta.collection) THEN Throw(CollectionRequired)
    ELSE LET basePath == meta.collection.s \o
                 (IF Truthy(meta.doc) THEN <<".">> \o meta.doc.s ELSE <<>>)
             subs == meta.subcollections.elems
             mapped == [i \in 1..Len(subs) |-> pathFromMeta(subs[i])]
         IN  IF ~Truthy(meta.subcollections) THEN Return(basePath)
             ELSE Return(basePath \o <<".">> \o
                         join([i \in 1..Len(subs) |->
                                 IF mapped[i].ok THEN mapped[i].v ELSE <<>>],
                              <<".">>))

\* subcollections.map(pathFromMeta) runs the entries in order and the first
\* one that throws ends the call with its error.
pathFromMeta(meta) ==
    IF ~Truthy(meta) THEN Throw(MetaRequired)
    ELSE IF Truthy(meta.storeAs) THEN Return(meta.storeAs.s)
    ELSE IF ~Truthy(meta.collection) THEN Throw(CollectionRequired)
    ELSE LET basePath == meta.collection.s \o
                 (IF Truthy(meta.doc) THEN <<".">> \o meta.doc.s ELSE <<>>)
             subs == meta.subcollections.elems
             mapped == [i \in 1..Len(subs) |-> pathFromMeta(subs[i])]
             failed == {i \in 1..Len(subs) : ~mapped[i].ok}
         IN  IF ~Truthy(meta.subcollections) THEN Return(basePath)
             ELSE IF failed # {} THEN mapped[Min(failed)]
             ELSE Return(basePath \o <<".">> \o
                         join([i \in 1..Len(subs) |-> mapped[i].v], <<".">>))

(***************************************************************************)
(* The meta trees given to pathFromMeta: every tree of at most MaxNodes    *)
(* nodes.  A node is an absent entry (undefined) or a meta object of one   *)
(* of NodeShapes whose subcollections is absent or an array of nodes.  A   *)
(* tree of n nodes is given by the parent of each node, the nodes being    *)
(* numbered in depth-first order, and by the label of each node.           *)
(***************************************************************************)
C == <<"c">>
S1 == <<"s", "1">>
D == <<"d">>
X == <<"x", ".", "y">>

\* <<collection, doc, storeAs>> of a meta object
NodeShapes ==
    { <<Undefined, Undefined, Undefined>>,
      <<Str(C), Undefined, Undefined>>,
      <<Str(S1), Undefined, Undefined>>,
      <<Str(C), Str(D), Undefined>>,
      <<Str(<<>>), Str(D), Undefined>>,
      <<Undefined, Undefined, Str(X)>>,
      <<Str(C), Undefined, Str(X)>>,
      <<Str(S1), Str(D), Str(<<>>)>> }

\* a label: an absent entry, or a shape with or without a subcollections array
NodeLabels ==
    {[absent |-> TRUE, shape |-> <<>>, array |-> FALSE]} \cup
    {[absent |-> FALSE, shape |-> sh, array |-> b] : sh \in NodeShapes, b \in BOOLEAN}

\* node i and its ancestors, for parents par (the root, node 1, has parent 0)
RECURSIVE Ancestors(_, _)
Ancestors(par, i) == IF i = 0 THEN {} ELSE {i} \cup Ancestors(par, par[i])

\* the parent functions of the trees of n nodes numbered in depth-first order
ParentsOf(n) ==
    {par \in [1..n -> 0..(n - 1)] :
        /\ par[1] = 0
        /\ \A i \in 2..n : par[i] \in Ancestors(par, i - 1)}

\* the children of node i, in order
RECURSIVE Sorted(_)
Sorted(set) ==
    IF set = {} THEN <<>> ELSE <<Min(set)>> \o Sorted(set \ {Min(set)})

ChildrenOf(par, i) == Sorted({j \in DOMAIN par : par[j] = i})

\* only a meta object with a subcollections array has children
WellLabelled(par, lab) ==
    \A i \in DOMAIN par : ChildrenOf(par, i) # <<>> => lab[i].array

RECURSIVE MetaAt(_, _, _)
MetaAt(par, lab, i) ==
    IF lab[i].absent THEN Undefined
    ELSE LET ch == ChildrenOf(par, i)
         IN  Meta(lab[i].shape[1], lab[i].shape[2],
                  IF lab[i].array
                  THEN Arr([k \in 1..Len(ch) |-> MetaAt(par, lab, ch[k])])
                  ELSE Undefined,
                  lab[i].shape[3])

InitPath ==
    /\ pc = "call"
    /\ op = "pathFromMeta"
    /\ \E n \in 1..MaxNodes :
         \E par \in ParentsOf(n) :
           \E lab \in [1..n -> NodeLabels] :
              /\ WellLabelled(par, lab)
              /\ args = [meta |-> MetaAt(par, lab, 1)]
    /\ heap0 = <<>>
    /\ heap = <<>>
    /\ ret = Undefined
    /\ calls = <<>>

PathFromMeta ==
    /\ pc = "call"
    /\ op = "pathFromMeta"
    /\ ret' = pathFromMeta(args.meta)
    /\ pc' = "done"
    /\ UNCHANGED <<op, args, heap0, heap, calls>>

NextPath == PathFromMeta

SpecPath == InitPath /\ [][NextPath]_vars

DonePath == pc = "done" /\ op = "pathFromMeta"

(***************************************************************************)
(* Claims about pathFromMeta (checked under SpecPath)                      *)
(***************************************************************************)
\* the concatenation of the sequences seqs[1], ..., seqs[Len(seqs)]
RECURSIVE Flatten(_)
Flatten(seqs) ==
    IF Len(seqs) = 0 THEN <<>> ELSE seqs[1] \o Flatten(Tail(seqs))

\* paths joined with dots, built from the right
RECURSIVE C1_DotJoined(_)
C1_DotJoined(paths) ==
    IF Len(paths) = 0 THEN <<>>
    ELSE IF Len(paths) = 1 THEN paths[1]
    ELSE C1_DotJoined(SubSeq(paths, 1, Len(paths) - 1))
             \o <<".">> \o paths[Len(paths)]

\* an entry resolves without error
RECURSIVE C1_Resolves(_)
C1_Resolves(m) ==
    /\ Truthy(m)
    /\ \/ Truthy(m.storeAs)
       \/ /\ Truthy(m.collection)
          /\ m.subcollections # Undefined =>
                 \A i \in 1..Len(m.subcollections.elems) :
                     C1_Resolves(m.subcollections.elems[i])

\* the path the spec gives a meta that resolves
RECURSIVE C1_Path(_)
C1_Path(m) ==
    IF Truthy(m.storeAs) THEN m.storeAs.s
    ELSE m.collection.s
         \o (IF Truthy(m.doc) THEN <<".">> \o m.doc.s ELSE <<>>)
         \o (IF m.subcollections # Undefined
             THEN <<".">> \o C1_DotJoined(
                      [i \in 1..Len(m.subcollections.elems) |->
                          C1_Path(m.subcollections.elems[i])])
             ELSE <<>>)

\* {collection:'c', doc:'d', subcollections:[{collection:'s1'}, {collection:'c', doc:'d'}]}
C1_Example ==
    Meta(Str(C), Str(D),
         Arr(<<Meta(Str(S1), Undefined, Undefined, Undefined),
               Meta(Str(C), Str(D), Undefined, Undefined)>>),
         Undefined)

\* the same with the two subcollections entries swapped
C1_Swapped ==
    Meta(Str(C), Str(D),
         Arr(<<Meta(Str(C), Str(D), Undefined, Undefined),
               Meta(Str(S1), Undefined, Undefined, Undefined)>>),
         Undefined)

\* C1: a meta without storeAs, with a non-empty collection and whose entries
\* all resolve, gives collection, then '.'+doc when doc is present, then (when
\* subcollections is given) '.' and the entries' paths joined by '.' in the
\* order of the sequence; the example gives 'c.d.s1.c.d' and, swapped,
\* 'c.d.c.d.s1'.
C1_PathIsBaseThenSubPaths ==
    DonePath =>
        /\ (/\ Truthy(args.meta)
            /\ ~Truthy(args.meta.storeAs)
            /\ Truthy(args.meta.collection)
            /\ C1_Resolves(args.meta))
               => ret = Return(C1_Path(args.meta))
        /\ args.meta = Meta(Str(C), Undefined, Undefined, Undefined)
               => ret = Return(<<"c">>)
        /\ args.meta = Meta(Str(C), Str(D), Undefined, Undefined)
               => ret = Return(<<"c", ".", "d">>)
        /\ args.meta = C1_Example
               => ret = Return(<<"c", ".", "d", ".", "s", "1", ".", "c", ".", "d">>)
        /\ args.meta = C1_Swapped
               => ret = Return(<<"c", ".", "d", ".", "c", ".", "d", ".", "s", "1">>)

C1_Witness == DonePath /\ args.meta = C1_Example /\ ret.ok

\* C2: a meta with a non-empty storeAs resolves to exactly storeAs, whatever
\* its collection, doc and subcollections are.
C2_StoreAsWins ==
    (DonePath /\ Truthy(args.meta) /\ Truthy(args.meta.storeAs))
        => ret = Return(args.meta.storeAs.s)

\* storeAs with no collection and with an entry that would fail to resolve
C2_Witness ==
    /\ DonePath
    /\ Truthy(args.meta)
    /\ Truthy(args.meta.storeAs)
    /\ ~Truthy(args.meta.collection)
    /\ args.meta.subcollections # Undefined
    /\ \E i \in 1..Len(args.meta.subcollections.elems) :
           ~C1_Resolves(args.meta.subcollections.elems[i])
    /\ ret = Return(X)

\* the metas the call visits, in depth-first order: the subcollections of a
\* meta with a non-empty storeAs are not visited
RECURSIVE C3_Visited(_)
C3_Visited(m) ==
    <<m>> \o
    (IF Truthy(m) /\ ~Truthy(m.storeAs) /\ m.subcollections # Undefined
     THEN Flatten([i \in 1..Len(m.subcollections.elems) |->
                      C3_Visited(m.subcollections.elems[i])])
     ELSE <<>>)

\* every entry below m, under a storeAs or not
RECURSIVE C3_Entries(_)
C3_Entries(m) ==
    IF Truthy(m) /\ m.subcollections # Undefined
    THEN Flatten([i \in 1..Len(m.subcollections.elems) |->
                     <<m.subcollections.elems[i]>>
                         \o C3_Entries(m.subcollections.elems[i])])
    ELSE <<>>

\* absent, or with neither a non-empty storeAs nor a collection
C3_Bad(m) == ~Truthy(m) \/ (~Truthy(m.storeAs) /\ ~Truthy(m.collection))

C3_ErrorOf(m) == IF ~Truthy(m) THEN MetaRequired ELSE CollectionRequired

C3_BadVisited(m) ==
    {i \in 1..Len(C3_Visited(m)) : C3_Bad(C3_Visited(m)[i])}

\* C3 as amended: when the meta or an entry the call visits (one reached
\* through entries without storeAs) is absent or lacks both storeAs and
\* collection, the call fails with the error of the first such meta in
\* depth-first order and returns no path.
C3_FirstBadVisitedFails ==
    (DonePath /\ C3_BadVisited(args.meta) # {})
        => ret = Throw(C3_ErrorOf(
                     C3_Visited(args.meta)[Min(C3_BadVisited(args.meta))]))

\* a well-formed meta whose first bad entry is two levels down
C3_Witness ==
    /\ DonePath
    /\ C3_BadVisited(args.meta) # {}
    /\ Min(C3_BadVisited(args.meta)) = 3
    /\ Truthy(args.meta.subcollections.elems[1])
    /\ Len(args.meta.subcollections.elems) = 1
    /\ ret = Throw(CollectionRequired)

\* C3 as stated: the top-level errors, and a well-formed meta with a bad
\* entry at any depth fails with a bad entry's error.
C3_AnyBadEntryFails ==
    DonePath =>
        /\ ~Truthy(args.meta) => ret = Throw(MetaRequired)
        /\ (Truthy(args.meta) /\ C3_Bad(args.meta))
               => ret = Throw(CollectionRequired)
        /\ (/\ Truthy(args.meta)
            /\ ~C3_Bad(args.meta)
            /\ ~Truthy(args.meta.storeAs)
            /\ \E i \in 1..Len(C3_Entries(args.meta)) :
                   C3_Bad(C3_Entries(args.meta)[i]))
               => /\ ~ret.ok
                  /\ \E i \in 1..Len(C3_Entries(args.meta)) :
                         /\ C3_Bad(C3_Entries(args.meta)[i])
                         /\ ret.err = C3_ErrorOf(C3_Entries(args.meta)[i])

\* s split at every '.'
RECURSIVE SplitDots(_)
SplitDots(s) ==
    IF \A i \in 1..Len(s) : s[i] # "."
    THEN <<s>>
    ELSE LET k == Min({i \in 1..Len(s) : s[i] = "."})
         IN  <<SubSeq(s, 1, k - 1)>> \o SplitDots(SubSeq(s, k + 1, Len(s)))

C10_Name(v) == v.t = "string" /\ v.s # <<>> /\ \A i \in 1..Len(v.s) : v.s[i] # "."

\* no storeAs anywhere, every collection a name, every doc absent or a name
RECURSIVE C10_Plain(_)
C10_Plain(m) ==
    /\ Truthy(m)
    /\ m.storeAs = Undefined
    /\ C10_Name(m.collection)
    /\ m.doc = Undefined \/ C10_Name(m.doc)
    /\ m.subcollections # Undefined =>
           \A i \in 1..Len(m.subcollections.elems) :
               C10_Plain(m.subcollections.elems[i])

\* the collection and doc names of m and its entries, depth first
RECURSIVE C10_Names(_)
C10_Names(m) ==
    <<m.collection.s>>
    \o (IF m.doc # Undefined THEN <<m.doc.s>> ELSE <<>>)
    \o (IF m.subcollections # Undefined
        THEN Flatten([i \in 1..Len(m.subcollections.elems) |->
                         C10_Names(m.subcollections.elems[i])])
        ELSE <<>>)

\* C10: for a meta tree without storeAs whose names are non-empty and hold
\* no '.', the returned path splits on '.' into non-empty segments, which
\* are the names of the tree in depth-first order.
C10_PathSegmentsAreNames ==
    (DonePath /\ C10_Plain(args.meta) /\ ret.ok)
        => /\ \A i \in 1..Len(SplitDots(ret.v)) : SplitDots(ret.v)[i] # <<>>
           /\ SplitDots(ret.v) = C10_Names(args.meta)

(***************************************************************************)
(* Heap objects and arrays                                                 *)
(***************************************************************************)
\* the property names of the objects
Keys == {"a", "b", "c"}

\* a property name held as a value (an element of a preserve list)
Key(k) == [t |-> "key", k |-> k]

Obj(props) == [kind |-> "object", props |-> props]
ArrCell(elems) == [kind |-> "array", elems |-> elems]

\* the plain objects with keys among Keys and numbers as values
Objects == UNION {[dom -> {Num(n) : n \in 1..MaxVal}] : dom \in SUBSET Keys}

\* object[key]; reading a key the object lacks gives undefined
GetProp(h, object, key) ==
    IF key \in DOMAIN h[object.a].props THEN h[object.a].props[key] ELSE Undefined

\* object[key] = value
SetProp(h, object, key, value) ==
    [h EXCEPT ![object.a].props =
        [k \in DOMAIN @ \cup {key} |-> IF k = key THEN value ELSE @[k]]]

\* the own keys of source copied onto target, by Object.assign or a spread;
\* an undefined or null source is skipped
CopyProps(h, target, source) ==
    IF source.t \in {"undefined", "null"} THEN h
    ELSE [h EXCEPT ![target.a].props =
             [k \in DOMAIN @ \cup DOMAIN h[source.a].props |->
                 IF k \in DOMAIN h[source.a].props
                 THEN h[source.a].props[k] ELSE @[k]]]

\* Object.keys: the keys of an object, in a fixed order
RECURSIVE KeySeq(_)
KeySeq(set) ==
    IF set = {} THEN <<>>
    ELSE LET k == CHOOSE x \in set : TRUE IN <<k>> \o KeySeq(set \ {k})

(***************************************************************************)
(* updateObject                                                            *)
(***************************************************************************)
\* faulty variant: Object.assign(oldObject, newValues), the copy is forgotten
updateObject_InPlace(h, oldObject, newValues) ==
    [heap |-> CopyProps(h, oldObject, newValues), ret |-> Return(oldObject)]

\* Object.assign({}, oldObject, newValues)
updateObject(h, oldObject, newValues) ==
    LET h1 == Append(h, Obj(<<>>))
        target == Ref(Len(h1))
    IN  [heap |-> CopyProps(CopyProps(h1, target, oldObject), target, newValues),
         ret |-> Return(target)]

\* oldObject is an object; newValues is another object or the same one
InitObject ==
    /\ pc = "call"
    /\ op = "updateObject"
    /\ \E o \in Objects, n \in Objects :
           /\ heap0 = <<Obj(o), Obj(n)>>
           /\ \E a \in 1..2 : args = [oldObject |-> Ref(1), newValues |-> Ref(a)]
    /\ heap = heap0
    /\ ret = Undefined
    /\ calls = <<>>

UpdateObject ==
    /\ pc = "call"
    /\ op = "updateObject"
    /\ LET r == updateObject(heap, args.oldObject, args.newValues)
       IN  heap' = r.heap /\ ret' = r.ret
    /\ pc' = "done"
    /\ UNCHANGED <<op, args, heap0, calls>>

NextObject == UpdateObject

SpecObject == InitObject /\ [][NextObject]_vars

DoneObject == pc = "done" /\ op = "updateObject"

(***************************************************************************)
(* combineReducers                                                         *)
(***************************************************************************)
\* the sub-reducers: "keep" returns its state as it is (undefined included),
\* "init" replaces an undefined state by 1, "set" stores the payload of a SET
\* action
ReducerNames == {"keep", "init", "set"}

Actions ==
    {[type |-> "NOOP", payload |-> Undefined]} \cup
    {[type |-> "SET", payload |-> Num(n)] : n \in 1..MaxVal}

ApplyReducer(name, state, action) ==
    CASE name = "keep" -> state
      [] name = "init" -> IF state = Undefined THEN Num(1) ELSE state
      [] name = "set" -> IF action.type = "SET" THEN action.payload ELSE state

\* the reduce over Object.keys(reducers): nextState[key] =
\* reducers[key](state[key], action) for each key in turn
RECURSIVE ReduceKeys(_, _, _, _, _, _)
ReduceKeys(h, keys, reducers, state, action, nextState) ==
    IF keys = <<>> THEN h
    ELSE ReduceKeys(
             SetProp(h, nextState, Head(keys),
                     ApplyReducer(reducers[Head(keys)],
                                  GetProp(h, state, Head(keys)), action)),
             Tail(keys), reducers, state, action, nextState)

\* faulty variant: the reduce starts from the incoming state instead of {}
combineReducers_IntoState(h, reducers, stateArg, action) ==
    LET h1 == IF stateArg = Undefined THEN Append(h, Obj(<<>>)) ELSE h
        state == IF stateArg = Undefined THEN Ref(Len(h1)) ELSE stateArg
    IN  [heap |-> ReduceKeys(h1, KeySeq(DOMAIN reducers), reducers, state,
                             action, state),
         ret |-> Return(state)]

\* combineReducers(reducers)(stateArg, action); an undefined stateArg takes
\* the default {}
combineReducers(h, reducers, stateArg, action) ==
    LET h1 == IF stateArg = Undefined THEN Append(h, Obj(<<>>)) ELSE h
        state == IF stateArg = Undefined THEN Ref(Len(h1)) ELSE stateArg
        h2 == Append(h1, Obj(<<>>))
        nextState == Ref(Len(h2))
    IN  [heap |-> ReduceKeys(h2, KeySeq(DOMAIN reducers), reducers, state,
                             action, nextState),
         ret |-> Return(nextState)]

InitCombine ==
    /\ pc = "call"
    /\ op = "combineReducers"
    /\ \E dom \in SUBSET Keys :
         \E reducers \in [dom -> ReducerNames] :
           \E action \in Actions :
              \/ /\ heap0 = <<>>
                 /\ args = [reducers |-> reducers, state |-> Undefined,
                            action |-> action]
              \/ \E o \in Objects :
                    /\ heap0 = <<Obj(o)>>
                    /\ args = [reducers |-> reducers, state |-> Ref(1),
                               action |-> action]
    /\ heap = heap0
    /\ ret = Undefined
    /\ calls = <<>>

CombineReducers ==
    /\ pc = "call"
    /\ op = "combineReducers"
    /\ LET r == combineReducers(heap, args.reducers, args.state, args.action)
       IN  heap' = r.heap /\ ret' = r.ret
    /\ pc' = "done"
    /\ UNCHANGED <<op, args, heap0, calls>>

NextCombine == CombineReducers

SpecCombine == InitCombine /\ [][NextCombine]_vars

DoneCombine == pc = "done" /\ op = "combineReducers"

(***************************************************************************)
(* updateItemInArray                                                       *)
(***************************************************************************)
\* the callbacks: "setV" returns the copy {...item, v: 0}, "same" returns the
\* item it was given
CallbackNames == {"setV", "same"}

\* updateItemCallback(item)
ApplyCallback(h, name, item) ==
    IF name = "setV"
    THEN LET h1 == Append(h, Obj(<<>>))
             copy == Ref(Len(h1))
         IN  [heap |-> SetProp(CopyProps(h1, copy, item), copy, "v", Num(0)),
              ret |-> copy]
    ELSE [heap |-> h, ret |-> item]

\* the array.map: [heap, elems, calls] after the items from index i on
RECURSIVE MapItems(_, _, _, _, _, _, _)
MapItems(h, items, i, itemId, callback, out, log) ==
    IF i > Len(items) THEN [heap |-> h, elems |-> out, calls |-> log]
    ELSE IF GetProp(h, items[i], "id") # itemId
    THEN MapItems(h, items, i + 1, itemId, callback, Append(out, items[i]), log)
    ELSE LET r == ApplyCallback(h, callback.f, items[i])
         IN  MapItems(r.heap, items, i + 1, itemId, callback,
                      Append(out, r.ret), Append(log, items[i]))

\* faulty variant: the callback is applied to every item
RECURSIVE MapItems_All(_, _, _, _, _, _, _)
MapItems_All(h, items, i, itemId, callback, out, log) ==
    IF i > Len(items) THEN [heap |-> h, elems |-> out, calls |-> log]
    ELSE LET r == ApplyCallback(h, callback.f, items[i])
         IN  MapItems_All(r.heap, items, i + 1, itemId, callback,
                          Append(out, r.ret), Append(log, items[i]))

updateItemInArray_All(h, array, itemId, updateItemCallback) ==
    LET h1 == Append(h, ArrCell(<<>>))
        updatedItems == Ref(Len(h1))
        m == MapItems_All(h1, h[array.a].elems, 1, itemId, updateItemCallback,
                          <<>>, <<>>)
    IN  [heap |-> [m.heap EXCEPT ![updatedItems.a].elems = m.elems],
         ret |-> Return(updatedItems), calls |-> m.calls]

\* array.map puts the mapped items in a new array
updateItemInArray(h, array, itemId, updateItemCallback) ==
    LET h1 == Append(h, ArrCell(<<>>))
        updatedItems == Ref(Len(h1))
        m == MapItems(h1, h[array.a].elems, 1, itemId, updateItemCallback,
                      <<>>, <<>>)
    IN  [heap |-> [m.heap EXCEPT ![updatedItems.a].elems = m.elems],
         ret |-> Return(updatedItems), calls |-> m.calls]

\* the items {id, v}
Items == {[id |-> Num(i), v |-> Num(n)] : i \in 1..MaxVal, n \in 1..MaxVal}

\* the ids asked for: the ids of the items, one no item has, and the string '1'
ItemIds == {Num(i) : i \in 1..(MaxVal + 1)} \cup {Str(<<"1">>)}

\* heap0 holds the items at 1..n and the array of them at n + 1
InitArray ==
    /\ pc = "call"
    /\ op = "updateItemInArray"
    /\ \E n \in 0..MaxLen :
         \E items \in [1..n -> Items] :
           /\ heap0 = [i \in 1..(n + 1) |->
                          IF i <= n THEN Obj(items[i])
                          ELSE ArrCell([j \in 1..n |-> Ref(j)])]
           /\ \E itemId \in ItemIds, cb \in CallbackNames :
                 args = [array |-> Ref(n + 1), itemId |-> itemId,
                         updateItemCallback |-> Fn(cb)]
    /\ heap = heap0
    /\ ret = Undefined
    /\ calls = <<>>

UpdateItemInArray ==
    /\ pc = "call"
    /\ op = "updateItemInArray"
    /\ LET r == updateItemInArray(heap, args.array, args.itemId,
                                  args.updateItemCallback)
       IN  heap' = r.heap /\ ret' = r.ret /\ calls' = r.calls
    /\ pc' = "done"
    /\ UNCHANGED <<op, args, heap0>>

NextArray == UpdateItemInArray

SpecArray == InitArray /\ [][NextArray]_vars

DoneArray == pc = "done" /\ op = "updateItemInArray"

(***************************************************************************)
(* preserveValuesFromState                                                 *)
(***************************************************************************)
isFunction(h, v) == v.t = "function"
isBoolean(h, v) == v.t = "boolean"
isArray(h, v) == v.t = "ref" /\ h[v.a].kind = "array"

\* the preserve functions: "takeNext" returns nextState, "takeState" returns
\* state
PreserveFunctions == {"takeNext", "takeState"}

ApplyPreserve(name, state, nextState) ==
    IF name = "takeNext" THEN nextState ELSE state

\* lodash pick(object, paths): a new object with the listed keys that object
\* has; an undefined object has none
pick(h, object, paths) ==
    LET listed == {h[paths.a].elems[i].k : i \in 1..Len(h[paths.a].elems)}
        has == IF object = Undefined THEN {}
               ELSE listed \cap DOMAIN h[object.a].props
        h1 == Append(h, Obj([k \in has |-> h[object.a].props[k]]))
    IN  [heap |-> h1, ret |-> Return(Ref(Len(h1)))]

\* faulty variant: boolean false keeps nothing of state and returns nextState
preserveValuesFromState_FalseReturnsNext(h, state, preserveSetting, nextState) ==
    IF isFunction(h, preserveSetting)
    THEN [heap |-> h,
          ret |-> Return(ApplyPreserve(preserveSetting.f, state, nextState)),
          calls |-> <<<<state, nextState>>>>]
    ELSE IF isBoolean(h, preserveSetting) /\ preserveSetting.b
    THEN IF Truthy(nextState)
         THEN LET h1 == Append(h, Obj(<<>>))
                  merged == Ref(Len(h1))
              IN  [heap |-> CopyProps(CopyProps(h1, merged, state), merged,
                                      nextState),
                   ret |-> Return(merged), calls |-> <<>>]
         ELSE [heap |-> h, ret |-> Return(state), calls |-> <<>>]
    ELSE IF isBoolean(h, preserveSetting)
    THEN [heap |-> h, ret |-> Return(nextState), calls |-> <<>>]
    ELSE IF isArray(h, preserveSetting)
    THEN pick(h, state, preserveSetting) @@ [calls |-> <<>>]
    ELSE [heap |-> h, ret |-> Throw(InvalidPreserve), calls |-> <<>>]

\* faulty variant: with true, state is returned and nextState is left out
preserveValuesFromState_TrueKeepsState(h, state, preserveSetting, nextState) ==
    IF isFunction(h, preserveSetting)
    THEN [heap |-> h,
          ret |-> Return(ApplyPreserve(preserveSetting.f, state, nextState)),
          calls |-> <<<<state, nextState>>>>]
    ELSE IF isBoolean(h, preserveSetting) /\ preserveSetting.b
    THEN [heap |-> h, ret |-> Return(state), calls |-> <<>>]
    ELSE IF isArray(h, preserveSetting)
    THEN pick(h, state, preserveSetting) @@ [calls |-> <<>>]
    ELSE [heap |-> h, ret |-> Throw(InvalidPreserve), calls |-> <<>>]

\* faulty variant: with a list, the picked fields are merged into nextState
preserveValuesFromState_PickIntoNext(h, state, preserveSetting, nextState) ==
    IF isFunction(h, preserveSetting)
    THEN [heap |-> h,
          ret |-> Return(ApplyPreserve(preserveSetting.f, state, nextState)),
          calls |-> <<<<state, nextState>>>>]
    ELSE IF isBoolean(h, preserveSetting) /\ preserveSetting.b
    THEN IF Truthy(nextState)
         THEN LET h1 == Append(h, Obj(<<>>))
                  merged == Ref(Len(h1))
              IN  [heap |-> CopyProps(CopyProps(h1, merged, state), merged,
                                      nextState),
                   ret |-> Return(merged), calls |-> <<>>]
         ELSE [heap |-> h, ret |-> Return(state), calls |-> <<>>]
    ELSE IF isArray(h, preserveSetting)
    THEN LET p == pick(h, state, preserveSetting)
         IN  [heap |-> CopyProps(p.heap, p.ret.v, nextState), ret |-> p.ret,
              calls |-> <<>>]
    ELSE [heap |-> h, ret |-> Throw(InvalidPreserve), calls |-> <<>>]

\* {...state, ...nextState} is a new object; a spread of undefined or null
\* copies nothing
preserveValuesFromState(h, state, preserveSetting, nextState) ==
    IF isFunction(h, preserveSetting)
    THEN [heap |-> h,
          ret |-> Return(ApplyPreserve(preserveSetting.f, state, nextState)),
          calls |-> <<<<state, nextState>>>>]
    ELSE IF isBoolean(h, preserveSetting) /\ preserveSetting.b
    THEN IF Truthy(nextState)
         THEN LET h1 == Append(h, Obj(<<>>))
                  merged == Ref(Len(h1))
              IN  [heap |-> CopyProps(CopyProps(h1, merged, state), merged,
                                      nextState),
                   ret |-> Return(merged), calls |-> <<>>]
         ELSE [heap |-> h, ret |-> Return(state), calls |-> <<>>]
    ELSE IF isArray(h, preserveSetting)
    THEN pick(h, state, preserveSetting) @@ [calls |-> <<>>]
    ELSE [heap |-> h, ret |-> Throw(InvalidPreserve), calls |-> <<>>]

\* the lists of field names of at most MaxLen names
FieldLists == UNION {[1..n -> {Key(k) : k \in Keys}] : n \in 0..MaxLen}

\* the preserve settings that are not on the heap
PlainSettings ==
    {Fn(f) : f \in PreserveFunctions}
    \cup {Bool(TRUE), Bool(FALSE), Null, Undefined, Num(0), Num(42),
          Str(<<>>), Str(<<"a">>)}

\* heap0 holds state at 1, the candidate next state at 2 and a list of field
\* names at 3; each argument is one of these or a value that is not on the
\* heap (preserveSetting may also be the plain object at 2).  A cell no
\* argument refers to is left empty.
InitPreserve ==
    /\ pc = "call"
    /\ op = "preserveValuesFromState"
    /\ \E state \in {Ref(1), Undefined} :
         \E nextState \in {Ref(2), Undefined, Null} :
           \E preserveSetting \in PlainSettings \cup {Ref(2), Ref(3)} :
              /\ args = [state |-> state, preserveSetting |-> preserveSetting,
                         nextState |-> nextState]
              /\ \E o \in Objects, n \in Objects, fields \in FieldLists :
                    /\ state = Undefined => o = <<>>
                    /\ Ref(2) \notin {nextState, preserveSetting} => n = <<>>
                    /\ preserveSetting # Ref(3) => fields = <<>>
                    /\ heap0 = <<Obj(o), Obj(n), ArrCell(fields)>>
    /\ heap = heap0
    /\ ret = Undefined
    /\ calls = <<>>

PreserveValuesFromState ==
    /\ pc = "call"
    /\ op = "preserveValuesFromState"
    /\ LET r == preserveValuesFromState(heap, args.state, args.preserveSetting,
                                        args.nextState)
       IN  heap' = r.heap /\ ret' = r.ret /\ calls' = r.calls
    /\ pc' = "done"
    /\ UNCHANGED <<op, args, heap0>>

NextPreserve == PreserveValuesFromState

SpecPreserve == InitPreserve /\ [][NextPreserve]_vars

DonePreserve == pc = "done" /\ op = "preserveValuesFromState"

(***************************************************************************)
(* The module as a whole: one call of one of the functions.                *)
(***************************************************************************)
Init == InitPath \/ InitCombine \/ InitObject \/ InitArray \/ InitPreserve

Next ==
    \/ PathFromMeta
    \/ CombineReducers
    \/ UpdateObject
    \/ UpdateItemInArray
    \/ PreserveValuesFromState

Spec == Init /\ [][Next]_vars

(***************************************************************************)
(* Claims about the heap functions                                         *)
(***************************************************************************)
\* every object and array that existed before the call is as it was
InputsUntouched == \A a \in DOMAIN heap0 : heap[a] = heap0[a]

\* the value is an object or array the call has allocated
Allocated(v) == v.t = "ref" /\ v.a \in DOMAIN heap /\ v.a \notin DOMAIN heap0

\* the properties an argument had before the call; none when it is absent
PropsBefore(v) == IF v.t = "ref" THEN heap0[v.a].props ELSE <<>>

\* C4: combineReducers(R)(S, A) returns a new object, not S, whose keys are
\* exactly the keys of R, each key k holding R[k](S[k], A) with S[k] undefined
\* when S is undefined or lacks k; S is not modified.
C4_CombinedStateHasReducerKeys ==
    DoneCombine =>
        /\ ret.ok
        /\ Allocated(ret.v)
        /\ ret.v # args.state
        /\ DOMAIN heap[ret.v.a].props = DOMAIN args.reducers
        /\ \A k \in DOMAIN args.reducers :
               heap[ret.v.a].props[k] =
                   ApplyReducer(args.reducers[k],
                                IF k \in DOMAIN PropsBefore(args.state)
                                THEN PropsBefore(args.state)[k] ELSE Undefined,
                                args.action)
        /\ InputsUntouched

\* a state with a key that is not in R, and R with a key the state lacks
C4_Witness ==
    /\ DoneCombine
    /\ args.state # Undefined
    /\ DOMAIN PropsBefore(args.state) \ DOMAIN args.reducers # {}
    /\ DOMAIN args.reducers \ DOMAIN PropsBefore(args.state) # {}
    /\ DOMAIN heap[ret.v.a].props = DOMAIN args.reducers

\* the items of the input array with the id asked for
C5_Matches(i) ==
    heap0[heap0[args.array.a].elems[i].a].props.id = args.itemId

\* out is what the callback returns for item
C5_CallbackResult(item, out) ==
    IF args.updateItemCallback.f = "same" THEN out = item
    ELSE /\ Allocated(out)
         /\ heap[out.a].props = [heap0[item.a].props EXCEPT !.v = Num(0)]

\* C5: updateItemInArray returns a new array of the same length and order, in
\* which an element whose id differs is the very element of the input and an
\* element whose id matches is the callback's result for it; the callback is
\* called for the matching elements only (never when there is none); the input
\* array is not modified.
C5_OnlyMatchingItemUpdated ==
    DoneArray =>
        LET in == heap0[args.array.a].elems
            out == heap[ret.v.a].elems
        IN  /\ ret.ok
            /\ Allocated(ret.v)
            /\ Len(out) = Len(in)
            /\ \A i \in 1..Len(in) :
                   IF C5_Matches(i) THEN C5_CallbackResult(in[i], out[i])
                   ELSE out[i] = in[i]
            /\ Len(calls) = Cardinality({i \in 1..Len(in) : C5_Matches(i)})
            /\ \A j \in 1..Len(calls) :
                   \E i \in 1..Len(in) : C5_Matches(i) /\ calls[j] = in[i]
            /\ ({i \in 1..Len(in) : C5_Matches(i)} = {}) =>
                   (calls = <<>> /\ out = in)
            /\ InputsUntouched

\* two items, the second one matching and copied by the callback
C5_Witness ==
    /\ DoneArray
    /\ Len(heap0[args.array.a].elems) = 2
    /\ ~C5_Matches(1)
    /\ C5_Matches(2)
    /\ args.updateItemCallback.f = "setV"
    /\ heap[ret.v.a].elems[1] = Ref(1)
    /\ heap[ret.v.a].elems[2] # Ref(2)

\* no item has the id asked for
C5_WitnessMiss ==
    /\ DoneArray
    /\ Len(heap0[args.array.a].elems) = 2
    /\ \A i \in 1..2 : ~C5_Matches(i)
    /\ calls = <<>>

\* p then q: every key of either, q's value on a key both have
MergedProps(p, q) ==
    [k \in DOMAIN p \cup DOMAIN q |-> IF k \in DOMAIN q THEN q[k] ELSE p[k]]

\* C6: updateObject returns a newly allocated object, neither of its inputs,
\* whose keys are the union of the two key sets, a key of newValues holding
\* newValues' value and any other key oldObject's; both inputs are as before.
C6_UpdateObjectMergesIntoNew ==
    DoneObject =>
        /\ ret.ok
        /\ Allocated(ret.v)
        /\ ret.v \notin {args.oldObject, args.newValues}
        /\ DOMAIN heap[ret.v.a].props =
               DOMAIN PropsBefore(args.oldObject)
                   \cup DOMAIN PropsBefore(args.newValues)
        /\ \A k \in DOMAIN heap[ret.v.a].props :
               heap[ret.v.a].props[k] =
                   IF k \in DOMAIN PropsBefore(args.newValues)
                   THEN PropsBefore(args.newValues)[k]
                   ELSE PropsBefore(args.oldObject)[k]
        /\ InputsUntouched

\* a key of oldObject alone and a key both have, with different values
C6_Witness ==
    /\ DoneObject
    /\ args.oldObject # args.newValues
    /\ DOMAIN PropsBefore(args.oldObject) \ DOMAIN PropsBefore(args.newValues) # {}
    /\ \E k \in DOMAIN PropsBefore(args.oldObject)
                  \cap DOMAIN PropsBefore(args.newValues) :
           /\ PropsBefore(args.oldObject)[k] # PropsBefore(args.newValues)[k]
           /\ heap[ret.v.a].props[k] = PropsBefore(args.newValues)[k]

C8_Listed ==
    {heap0[args.preserveSetting.a].elems[i].k :
        i \in 1..Len(heap0[args.preserveSetting.a].elems)}

\* C8: with a list of field names the result is a new object whose keys are
\* exactly the listed fields that state has, each with state's value: a
\* listed field state lacks is left out, a field not listed is dropped, and
\* nothing of nextState appears in it.
C8_ListPicksFieldsOfState ==
    (DonePreserve /\ isArray(heap0, args.preserveSetting)) =>
        /\ ret.ok
        /\ Allocated(ret.v)
        /\ heap[ret.v.a].kind = "object"
        /\ DOMAIN heap[ret.v.a].props =
               C8_Listed \cap DOMAIN PropsBefore(args.state)
        /\ \A k \in DOMAIN heap[ret.v.a].props :
               heap[ret.v.a].props[k] = PropsBefore(args.state)[k]
        /\ InputsUntouched

\* a listed field state lacks and nextState has, a field of state not listed,
\* and a listed field on which nextState differs from state
C8_Witness ==
    /\ DonePreserve
    /\ isArray(heap0, args.preserveSetting)
    /\ args.state.t = "ref"
    /\ args.nextState.t = "ref"
    /\ (C8_Listed \ DOMAIN PropsBefore(args.state))
           \cap DOMAIN PropsBefore(args.nextState) # {}
    /\ DOMAIN PropsBefore(args.state) \ C8_Listed # {}
    /\ DOMAIN heap[ret.v.a].props # {}

\* preserveSetting is a function, boolean true or a list of field names
C9_ValidSetting ==
    \/ args.preserveSetting.t = "function"
    \/ args.preserveSetting = Bool(TRUE)
    \/ (args.preserveSetting.t = "ref"
           /\ heap0[args.preserveSetting.a].kind = "array")

\* C9: preserveValuesFromState fails with the invalid-preserve-setting error
\* exactly when preserveSetting is none of a function, boolean true and a
\* list; it then returns no state.
C9_InvalidSettingThrows ==
    DonePreserve =>
        /\ ~C9_ValidSetting => ret = Throw(InvalidPreserve)
        /\ C9_ValidSetting => ret.ok

\* boolean false, with a state and a next state at hand
C9_Witness ==
    /\ DonePreserve
    /\ args.preserveSetting = Bool(FALSE)
    /\ args.state.t = "ref"
    /\ args.nextState.t = "ref"
    /\ ret = Throw(InvalidPreserve)
====
